---------------------------- MODULE Spec2Model ----------------------------
(***************************************************************************)
(* Lazy per-tenant DB connection cache (Deleplace/lazydb).                 *)
(*                                                                         *)
(* Three Server variants are modelled, statement by statement:             *)
(*   "best"        channel-based Server: dbmap + dbPending + dbLock        *)
(*   "doublecheck" double-checked locking around one dbmap                 *)
(*   "naive"       unsynchronized dbmap                                    *)
(* Goroutines are the HTTP handlers calling Server.getDB.    A label      *)
(* such as "Lock53" is the source line the goroutine is about to execute.  *)
(*                                                                         *)
(* sync.RWMutex is modelled by its contract: any number of read holders    *)
(* or one write holder.  A *DB pointer is the pair (ID, serial): the       *)
(* serial-th value Connect allocated for that ID; serial 0 is nil.  A      *)
(* channel is an index into chans; index 0 is the nil channel.             *)
(* count is an atomic.Uint64; the model stays far below 2^64.              *)
(***************************************************************************)
EXTENDS Naturals, FiniteSets, Sequences, TLC

\* number of handler goroutines that may be inside getDB at the same time
NProcs == 3
\* number of requests (getDB calls) issued to one Server
NbRequests == 3

Procs == 1..NProcs
Tenants == {"foo0", "foo1"}
Variants == {"best", "doublecheck", "naive"}

VARIABLES
    variant,      \* which Server type NewServer built
    dbmap,        \* s.dbmap
    dbPending,    \* s.dbPending
    dbLock,       \* s.dbLock / s.dbmapLock: [w: holder of Lock or 0, r: holders of RLock]
    count,        \* s.count
    chans,        \* chans[c] = TRUE iff channel c has been closed
    pc,           \* per goroutine: the line it is about to execute
    tenantID,     \* per goroutine: getDB's argument
    db,           \* per goroutine: local db
    pending,      \* per goroutine: local pending
    calls,        \* number of getDB calls issued so far
    connects,     \* per tenant: how many DBs Connect has made
    returned,     \* every <<tenant, *DB>> some getDB call has returned
    requested,    \* every tenant some getDB call was made for
    sequential    \* TRUE while no two getDB calls have overlapped in time

vars == <<variant, dbmap, dbPending, dbLock, count, chans, pc, tenantID, db,
          pending, calls, connects, returned, requested, sequential>>

shared == <<dbmap, dbPending, dbLock, count, chans, connects>>
history == <<returned, requested, sequential>>

NilDB == [ID |-> "", serial |-> 0]
NilChan == 0
Unlocked == [w |-> 0, r |-> {}]

\* Connect: the DB it returns for dbID, a fresh allocation
Connect(dbID) == [ID |-> dbID, serial |-> connects[dbID] + 1]

\* DB.get
get(d, key) == "value_for_" \o key

\* sync.RWMutex
CanRLock == dbLock.w = 0
CanLock == dbLock.w = 0 /\ dbLock.r = {}

\* NewServer, and no goroutine has called yet
InitState ==
    /\ dbmap = [k \in Tenants |-> NilDB]
    /\ dbPending = [k \in Tenants |-> NilChan]
    /\ dbLock = Unlocked
    /\ count = 0
    /\ chans = <<>>
    /\ pc = [p \in Procs |-> "idle"]
    /\ tenantID = [p \in Procs |-> ""]
    /\ db = [p \in Procs |-> NilDB]
    /\ pending = [p \in Procs |-> NilChan]
    /\ calls = 0
    /\ connects = [k \in Tenants |-> 0]
    /\ returned = {}
    /\ requested = {}
    /\ sequential = TRUE

Init == variant = "best" /\ InitState

\* a handler goroutine calls s.getDB(k)
Call(p, k, first) ==
    /\ pc[p] = "idle"
    /\ calls < NbRequests
    /\ pc' = [pc EXCEPT ![p] = first]
    /\ tenantID' = [tenantID EXCEPT ![p] = k]
    /\ calls' = calls + 1
    /\ requested' = requested \cup {k}
    /\ sequential' = (sequential /\ \A q \in Procs : pc[q] = "idle")
    /\ UNCHANGED <<variant, shared, db, pending, returned>>

\* return db
Return(p, at) ==
    /\ pc[p] = at
    /\ returned' = returned \cup {<<tenantID[p], db[p]>>}
    /\ pc' = [pc EXCEPT ![p] = "idle"]
    /\ db' = [db EXCEPT ![p] = NilDB]
    /\ pending' = [pending EXCEPT ![p] = NilChan]
    /\ tenantID' = [tenantID EXCEPT ![p] = ""]
    /\ UNCHANGED <<variant, shared, calls, requested, sequential>>

-----------------------------------------------------------------------------
(* The channel-based Server *)

GetDB(p, k) == variant = "best" /\ Call(p, k, "RLock32")

RLock32(p) ==
    /\ pc[p] = "RLock32"
    /\ CanRLock
    /\ dbLock' = [dbLock EXCEPT !.r = @ \cup {p}]
    /\ pc' = [pc EXCEPT ![p] = "Lookup33"]
    /\ UNCHANGED <<variant, dbmap, dbPending, count, chans, connects, tenantID,
                   db, pending, calls, history>>

\* Lookup33 without the RUnlock of line 35
Lookup33_NoRUnlock(p) ==
    /\ pc[p] = "Lookup33"
    /\ db' = [db EXCEPT ![p] = dbmap[tenantID[p]]]
    /\ pending' = [pending EXCEPT ![p] = dbPending[tenantID[p]]]
    /\ pc' = [pc EXCEPT ![p] =
                IF dbmap[tenantID[p]] # NilDB THEN "Return67"
                ELSE IF dbPending[tenantID[p]] # NilChan THEN "Recv40"
                ELSE "Lock53"]
    /\ UNCHANGED <<variant, dbmap, dbPending, dbLock, count, chans, connects,
                   tenantID, calls, history>>

\* lines 33-38: both lookups, RUnlock, and the branch on db and pending
Lookup33(p) ==
    /\ pc[p] = "Lookup33"
    /\ db' = [db EXCEPT ![p] = dbmap[tenantID[p]]]
    /\ pending' = [pending EXCEPT ![p] = dbPending[tenantID[p]]]
    /\ dbLock' = [dbLock EXCEPT !.r = @ \ {p}]
    /\ pc' = [pc EXCEPT ![p] =
                IF dbmap[tenantID[p]] # NilDB THEN "Return67"
                ELSE IF dbPending[tenantID[p]] # NilChan THEN "Recv40"
                ELSE "Lock53"]
    /\ UNCHANGED <<variant, dbmap, dbPending, count, chans, connects, tenantID,
                   calls, history>>

\* <-pending: a receive on an open channel nobody sends on blocks until close
Recv40(p) ==
    /\ pc[p] = "Recv40"
    /\ chans[pending[p]]
    /\ pc' = [pc EXCEPT ![p] = "RLock42"]
    /\ UNCHANGED <<variant, shared, tenantID, db, pending, calls, history>>

RLock42(p) ==
    /\ pc[p] = "RLock42"
    /\ CanRLock
    /\ dbLock' = [dbLock EXCEPT !.r = @ \cup {p}]
    /\ pc' = [pc EXCEPT ![p] = "Reread43"]
    /\ UNCHANGED <<variant, dbmap, dbPending, count, chans, connects, tenantID,
                   db, pending, calls, history>>

\* lines 43-48: the second lookup, RUnlock, and the nil check
Reread43(p) ==
    /\ pc[p] = "Reread43"
    /\ db' = [db EXCEPT ![p] = dbmap[tenantID[p]]]
    /\ dbLock' = [dbLock EXCEPT !.r = @ \ {p}]
    /\ pc' = [pc EXCEPT ![p] =
                IF dbmap[tenantID[p]] = NilDB THEN "panic" ELSE "Return67"]
    /\ UNCHANGED <<variant, dbmap, dbPending, count, chans, connects, tenantID,
                   pending, calls, history>>

\* Lock53 that also waits until no creation at all is pending
Lock53_OneAtATime(p) ==
    /\ pc[p] = "Lock53"
    /\ CanLock
    /\ \A k \in Tenants : dbPending[k] = NilChan
    /\ dbLock' = [dbLock EXCEPT !.w = p]
    /\ pc' = [pc EXCEPT ![p] = "Install54"]
    /\ UNCHANGED <<variant, dbmap, dbPending, count, chans, connects, tenantID,
                   db, pending, calls, history>>

Lock53(p) ==
    /\ pc[p] = "Lock53"
    /\ CanLock
    /\ dbLock' = [dbLock EXCEPT !.w = p]
    /\ pc' = [pc EXCEPT ![p] = "Install54"]
    /\ UNCHANGED <<variant, dbmap, dbPending, count, chans, connects, tenantID,
                   db, pending, calls, history>>

\* Install54 without the early Unlock of line 57
Install54_KeepLock(p) ==
    /\ pc[p] = "Install54"
    /\ chans' = Append(chans, FALSE)
    /\ pending' = [pending EXCEPT ![p] = Len(chans) + 1]
    /\ dbPending' = [dbPending EXCEPT ![tenantID[p]] = Len(chans) + 1]
    /\ count' = count + 1
    /\ pc' = [pc EXCEPT ![p] = "Connect59"]
    /\ UNCHANGED <<variant, dbmap, dbLock, connects, tenantID, db, calls, history>>

\* Install54 without count.Add(1)
Install54_NoCount(p) ==
    /\ pc[p] = "Install54"
    /\ chans' = Append(chans, FALSE)
    /\ pending' = [pending EXCEPT ![p] = Len(chans) + 1]
    /\ dbPending' = [dbPending EXCEPT ![tenantID[p]] = Len(chans) + 1]
    /\ dbLock' = [dbLock EXCEPT !.w = 0]
    /\ pc' = [pc EXCEPT ![p] = "Connect59"]
    /\ UNCHANGED <<variant, dbmap, count, connects, tenantID, db, calls, history>>

\* Install54 that adopts a marker already installed for its tenant instead
\* of making its own channel
Install54_AdoptMarker(p) ==
    /\ pc[p] = "Install54"
    /\ IF dbPending[tenantID[p]] # NilChan
         THEN /\ pending' = [pending EXCEPT ![p] = dbPending[tenantID[p]]]
              /\ UNCHANGED <<chans, dbPending>>
         ELSE /\ chans' = Append(chans, FALSE)
              /\ pending' = [pending EXCEPT ![p] = Len(chans) + 1]
              /\ dbPending' = [dbPending EXCEPT ![tenantID[p]] = Len(chans) + 1]
    /\ count' = count + 1
    /\ dbLock' = [dbLock EXCEPT !.w = 0]
    /\ pc' = [pc EXCEPT ![p] = "Connect59"]
    /\ UNCHANGED <<variant, dbmap, connects, tenantID, db, calls, history>>

\* lines 54-57: make the channel, install it, count, Unlock
Install54(p) ==
    /\ pc[p] = "Install54"
    /\ chans' = Append(chans, FALSE)
    /\ pending' = [pending EXCEPT ![p] = Len(chans) + 1]
    /\ dbPending' = [dbPending EXCEPT ![tenantID[p]] = Len(chans) + 1]
    /\ count' = count + 1
    /\ dbLock' = [dbLock EXCEPT !.w = 0]
    /\ pc' = [pc EXCEPT ![p] = "Connect59"]
    /\ UNCHANGED <<variant, dbmap, connects, tenantID, db, calls, history>>

\* db = Connect(tenantID): the goroutine is inside Connect while it is here
Connect59(p) ==
    /\ pc[p] = "Connect59"
    /\ db' = [db EXCEPT ![p] = Connect(tenantID[p])]
    /\ connects' = [connects EXCEPT ![tenantID[p]] = @ + 1]
    /\ pc' = [pc EXCEPT ![p] = "Lock61"]
    /\ UNCHANGED <<variant, dbmap, dbPending, dbLock, count, chans, tenantID,
                   pending, calls, history>>

Lock61(p) ==
    /\ pc[p] = "Lock61"
    /\ CanLock
    /\ dbLock' = [dbLock EXCEPT !.w = p]
    /\ pc' = [pc EXCEPT ![p] = "Publish62"]
    /\ UNCHANGED <<variant, dbmap, dbPending, count, chans, connects, tenantID,
                   db, pending, calls, history>>

\* Publish62 without close(pending)
Publish62_NoClose(p) ==
    /\ pc[p] = "Publish62"
    /\ dbmap' = [dbmap EXCEPT ![tenantID[p]] = db[p]]
    /\ dbPending' = [dbPending EXCEPT ![tenantID[p]] = NilChan]
    /\ dbLock' = [dbLock EXCEPT !.w = 0]
    /\ pc' = [pc EXCEPT ![p] = "Return67"]
    /\ UNCHANGED <<variant, count, chans, connects, tenantID, db, pending, calls,
                   history>>

\* Publish62 that closes the channel without storing the DB into dbmap
Publish62_NoStore(p) ==
    /\ pc[p] = "Publish62"
    /\ dbPending' = [dbPending EXCEPT ![tenantID[p]] = NilChan]
    /\ chans' = [chans EXCEPT ![pending[p]] = TRUE]
    /\ dbLock' = [dbLock EXCEPT !.w = 0]
    /\ pc' = [pc EXCEPT ![p] = "Return67"]
    /\ UNCHANGED <<variant, dbmap, count, connects, tenantID, db, pending, calls,
                   history>>

\* Publish62 that clears every pending marker, not only its tenant's
Publish62_ClearAll(p) ==
    /\ pc[p] = "Publish62"
    /\ dbmap' = [dbmap EXCEPT ![tenantID[p]] = db[p]]
    /\ dbPending' = [k \in Tenants |-> NilChan]
    /\ chans' = [chans EXCEPT ![pending[p]] = TRUE]
    /\ dbLock' = [dbLock EXCEPT !.w = 0]
    /\ pc' = [pc EXCEPT ![p] = "Return67"]
    /\ UNCHANGED <<variant, count, connects, tenantID, db, pending, calls, history>>

\* lines 62-65: store, clear the marker, close the channel, Unlock.
\* Closing a closed channel panics.
Publish62(p) ==
    /\ pc[p] = "Publish62"
    /\ dbmap' = [dbmap EXCEPT ![tenantID[p]] = db[p]]
    /\ dbPending' = [dbPending EXCEPT ![tenantID[p]] = NilChan]
    /\ IF chans[pending[p]]
         THEN /\ pc' = [pc EXCEPT ![p] = "panic"]
              /\ UNCHANGED <<chans, dbLock>>
         ELSE /\ chans' = [chans EXCEPT ![pending[p]] = TRUE]
              /\ dbLock' = [dbLock EXCEPT !.w = 0]
              /\ pc' = [pc EXCEPT ![p] = "Return67"]
    /\ UNCHANGED <<variant, count, connects, tenantID, db, pending, calls, history>>

Return67(p) == Return(p, "Return67")

BestStep(p) ==
    \/ RLock32(p) \/ Lookup33(p) \/ Recv40(p) \/ RLock42(p) \/ Reread43(p)
    \/ Lock53(p) \/ Install54(p) \/ Connect59(p) \/ Lock61(p) \/ Publish62(p)
    \/ Return67(p)

Next ==
    \/ \E p \in Procs, k \in Tenants : GetDB(p, k)
    \/ \E p \in Procs : RLock32(p)
    \/ \E p \in Procs : Lookup33(p)
    \/ \E p \in Procs : Recv40(p)
    \/ \E p \in Procs : RLock42(p)
    \/ \E p \in Procs : Reread43(p)
    \/ \E p \in Procs : Lock53(p)
    \/ \E p \in Procs : Install54(p)
    \/ \E p \in Procs : Connect59(p)
    \/ \E p \in Procs : Lock61(p)
    \/ \E p \in Procs : Publish62(p)
    \/ \E p \in Procs : Return67(p)

Spec == Init /\ [][Next]_vars


-----------------------------------------------------------------------------
(* The double-check Server: one dbmap guarded by dbmapLock (dbLock here) *)

DCGetDB(p, k) == variant = "doublecheck" /\ Call(p, k, "dcRLock25")

\* DCRLock25 that does not wait for the holder of the write lock
DCRLock25_NoWait(p) ==
    /\ pc[p] = "dcRLock25"
    /\ dbLock' = [dbLock EXCEPT !.r = @ \cup {p}]
    /\ pc' = [pc EXCEPT ![p] = "dcLookup26"]
    /\ UNCHANGED <<variant, dbmap, dbPending, count, chans, connects, tenantID,
                   db, pending, calls, history>>

DCRLock25(p) ==
    /\ pc[p] = "dcRLock25"
    /\ CanRLock
    /\ dbLock' = [dbLock EXCEPT !.r = @ \cup {p}]
    /\ pc' = [pc EXCEPT ![p] = "dcLookup26"]
    /\ UNCHANGED <<variant, dbmap, dbPending, count, chans, connects, tenantID,
                   db, pending, calls, history>>

\* lines 26-29: the lookup, RUnlock, and the branch on db
DCLookup26(p) ==
    /\ pc[p] = "dcLookup26"
    /\ db' = [db EXCEPT ![p] = dbmap[tenantID[p]]]
    /\ dbLock' = [dbLock EXCEPT !.r = @ \ {p}]
    /\ pc' = [pc EXCEPT ![p] =
                IF dbmap[tenantID[p]] # NilDB THEN "dcReturn39" ELSE "dcLock30"]
    /\ UNCHANGED <<variant, dbmap, dbPending, count, chans, connects, tenantID,
                   pending, calls, history>>

DCLock30(p) ==
    /\ pc[p] = "dcLock30"
    /\ CanLock
    /\ dbLock' = [dbLock EXCEPT !.w = p]
    /\ pc' = [pc EXCEPT ![p] = "dcRecheck31"]
    /\ UNCHANGED <<variant, dbmap, dbPending, count, chans, connects, tenantID,
                   db, pending, calls, history>>

\* DCRecheck31 without the second lookup: the "2. Lock" version of the
\* README, which connects whatever dbmap holds by now
DCRecheck31_NoRecheck(p) ==
    /\ pc[p] = "dcRecheck31"
    /\ count' = count + 1
    /\ pc' = [pc EXCEPT ![p] = "dcConnect34"]
    /\ UNCHANGED <<variant, dbmap, dbPending, dbLock, chans, connects, tenantID,
                   db, pending, calls, history>>

\* DCRecheck31 that unlocks before Connect, as the channel-based Server does
DCRecheck31_UnlockEarly(p) ==
    /\ pc[p] = "dcRecheck31"
    /\ db' = [db EXCEPT ![p] = dbmap[tenantID[p]]]
    /\ IF dbmap[tenantID[p]] = NilDB
         THEN /\ count' = count + 1
              /\ dbLock' = [dbLock EXCEPT !.w = 0]
              /\ pc' = [pc EXCEPT ![p] = "dcConnect34"]
         ELSE /\ count' = count
              /\ dbLock' = dbLock
              /\ pc' = [pc EXCEPT ![p] = "dcUnlock37"]
    /\ UNCHANGED <<variant, dbmap, dbPending, chans, connects, tenantID,
                   pending, calls, history>>

\* lines 31-33: the second lookup under the write lock; count.Add(1) if absent
DCRecheck31(p) ==
    /\ pc[p] = "dcRecheck31"
    /\ db' = [db EXCEPT ![p] = dbmap[tenantID[p]]]
    /\ IF dbmap[tenantID[p]] = NilDB
         THEN /\ count' = count + 1
              /\ pc' = [pc EXCEPT ![p] = "dcConnect34"]
         ELSE /\ count' = count
              /\ pc' = [pc EXCEPT ![p] = "dcUnlock37"]
    /\ UNCHANGED <<variant, dbmap, dbPending, dbLock, chans, connects, tenantID,
                   pending, calls, history>>

\* lines 34-35: db = Connect(tenantID), stored into dbmap. The goroutine is
\* inside Connect while it is here.
DCConnect34(p) ==
    /\ pc[p] = "dcConnect34"
    /\ db' = [db EXCEPT ![p] = Connect(tenantID[p])]
    /\ connects' = [connects EXCEPT ![tenantID[p]] = @ + 1]
    /\ dbmap' = [dbmap EXCEPT ![tenantID[p]] = Connect(tenantID[p])]
    /\ pc' = [pc EXCEPT ![p] = "dcUnlock37"]
    /\ UNCHANGED <<variant, dbPending, dbLock, count, chans, tenantID,
                   pending, calls, history>>

DCUnlock37(p) ==
    /\ pc[p] = "dcUnlock37"
    /\ dbLock' = [dbLock EXCEPT !.w = 0]
    /\ pc' = [pc EXCEPT ![p] = "dcReturn39"]
    /\ UNCHANGED <<variant, dbmap, dbPending, count, chans, connects, tenantID,
                   db, pending, calls, history>>

DCReturn39(p) == Return(p, "dcReturn39")

InitDC == variant = "doublecheck" /\ InitState

NextDC ==
    \/ \E p \in Procs, k \in Tenants : DCGetDB(p, k)
    \/ \E p \in Procs : DCRLock25(p)
    \/ \E p \in Procs : DCLookup26(p)
    \/ \E p \in Procs : DCLock30(p)
    \/ \E p \in Procs : DCRecheck31(p)
    \/ \E p \in Procs : DCConnect34(p)
    \/ \E p \in Procs : DCUnlock37(p)
    \/ \E p \in Procs : DCReturn39(p)

SpecDC == InitDC /\ [][NextDC]_vars

-----------------------------------------------------------------------------
(* The naive Server: dbmap is read and written with no synchronization.    *)
(* A map access takes time: a goroutine at "nvReading80" or "nvWriting84"  *)
(* is in the middle of one.                                                *)

NaiveGetDB(p, k) == variant = "naive" /\ Call(p, k, "nvRead80")

\* two accesses to dbmap in progress at once, one of them a write
MapRace ==
    \E p, q \in Procs :
        /\ p # q
        /\ pc[p] = "nvWriting84"
        /\ pc[q] \in {"nvReading80", "nvWriting84"}

\* what a lookup of dbmap[k] may yield: the stored value, or under a racing
\* write of k either side of that write
MapRead(k) ==
    {dbmap[k]} \cup {db[q] : q \in {r \in Procs : pc[r] = "nvWriting84" /\ tenantID[r] = k}}

\* NaiveRead80 behind a mutex: the lookup waits while another goroutine is
\* in the middle of a map access
NaiveRead80_Guarded(p) ==
    /\ pc[p] = "nvRead80"
    /\ \A q \in Procs : pc[q] \notin {"nvReading80", "nvWriting84"}
    /\ pc' = [pc EXCEPT ![p] = "nvReading80"]
    /\ UNCHANGED <<variant, shared, tenantID, db, pending, calls, history>>

NaiveRead80(p) ==
    /\ pc[p] = "nvRead80"
    /\ pc' = [pc EXCEPT ![p] = "nvReading80"]
    /\ UNCHANGED <<variant, shared, tenantID, db, pending, calls, history>>

\* lines 80-82: the lookup ends; count.Add(1) if absent
NaiveLookup80(p) ==
    /\ pc[p] = "nvReading80"
    /\ \E v \in MapRead(tenantID[p]) :
        /\ db' = [db EXCEPT ![p] = v]
        /\ IF v = NilDB
             THEN /\ count' = count + 1
                  /\ pc' = [pc EXCEPT ![p] = "nvConnect83"]
             ELSE /\ count' = count
                  /\ pc' = [pc EXCEPT ![p] = "nvReturn86"]
    /\ UNCHANGED <<variant, dbmap, dbPending, dbLock, chans, connects, tenantID,
                   pending, calls, history>>

NaiveConnect83(p) ==
    /\ pc[p] = "nvConnect83"
    /\ db' = [db EXCEPT ![p] = Connect(tenantID[p])]
    /\ connects' = [connects EXCEPT ![tenantID[p]] = @ + 1]
    /\ pc' = [pc EXCEPT ![p] = "nvStore84"]
    /\ UNCHANGED <<variant, dbmap, dbPending, dbLock, count, chans, tenantID,
                   pending, calls, history>>

NaiveStore84(p) ==
    /\ pc[p] = "nvStore84"
    /\ pc' = [pc EXCEPT ![p] = "nvWriting84"]
    /\ UNCHANGED <<variant, shared, tenantID, db, pending, calls, history>>

\* NaiveStored84 that loses the store
NaiveStored84_Lost(p) ==
    /\ pc[p] = "nvWriting84"
    /\ pc' = [pc EXCEPT ![p] = "nvReturn86"]
    /\ UNCHANGED <<variant, shared, tenantID, db, pending, calls, history>>

\* line 84: the store ends
NaiveStored84(p) ==
    /\ pc[p] = "nvWriting84"
    /\ dbmap' = [dbmap EXCEPT ![tenantID[p]] = db[p]]
    /\ pc' = [pc EXCEPT ![p] = "nvReturn86"]
    /\ UNCHANGED <<variant, dbPending, dbLock, count, chans, connects, tenantID,
                   db, pending, calls, history>>

\* the runtime may detect the race: "fatal error: concurrent map writes"
\* ends the process
NaiveFatal ==
    /\ MapRace
    /\ pc' = [p \in Procs |-> "fatal"]
    /\ UNCHANGED <<variant, shared, tenantID, db, pending, calls, history>>

NaiveReturn86(p) == Return(p, "nvReturn86")

InitNaive == variant = "naive" /\ InitState

NextNaive ==
    \/ \E p \in Procs, k \in Tenants : NaiveGetDB(p, k)
    \/ \E p \in Procs : NaiveRead80(p)
    \/ \E p \in Procs : NaiveLookup80(p)
    \/ \E p \in Procs : NaiveConnect83(p)
    \/ \E p \in Procs : NaiveStore84(p)
    \/ \E p \in Procs : NaiveStored84(p)
    \/ NaiveFatal
    \/ \E p \in Procs : NaiveReturn86(p)

SpecNaive == InitNaive /\ [][NextNaive]_vars

-----------------------------------------------------------------------------
(* Any of the three Servers *)

InitAll == variant \in Variants /\ InitState

NextAll == Next \/ NextDC \/ NextNaive

SpecAll == InitAll /\ [][NextAll]_vars

-----------------------------------------------------------------------------
(* The channel-based Server under a fair scheduler: a goroutine that can   *)
(* take a step (is runnable, or is waiting for a lock that stays free)     *)
(* eventually takes it, and every Connect returns.                         *)

SpecLive == Spec /\ \A p \in Procs : WF_vars(BestStep(p))


-----------------------------------------------------------------------------
(* Properties *)

\* no getDB call is in progress
Quiescent == \A p \in Procs : pc[p] = "idle"

\* Count()
Count == count

\* C1: in the channel-based Server, Connect(k) is invoked at most once for
\* every tenant k, whatever the interleaving of the getDB(k) calls.
C1_ConnectAtMostOnce == \A k \in Tenants : connects[k] <= 1

\* C2: in the channel-based Server, all getDB(k) calls for one tenant k
\* return the same *DB instance.
C2_SameInstance ==
    \A r1, r2 \in returned : r1[1] = r2[1] => r1[2] = r2[2]

\* C3: in the channel-based Server, once every issued getDB call has
\* returned, Count() equals the number of distinct tenants requested.
C3_CountIsDistinctTenants ==
    Quiescent => Count = Cardinality(requested)


\* the goroutines holding dbLock, shared or exclusive
LockHolders == dbLock.r \cup (IF dbLock.w = 0 THEN {} ELSE {dbLock.w})

\* dbLock is held, and only for map bookkeeping: every holder is at a lookup
\* or an update it can finish on its own, none is inside Connect or blocked
\* on a channel
ShortWindow ==
    /\ LockHolders # {}
    /\ \A r \in LockHolders :
        /\ pc[r] \in {"Lookup33", "Reread43", "Install54", "Publish62"}
        /\ ENABLED BestStep(r)

\* goroutine q waits for the creation of its own tenant, which is under way
WaitsForOwnTenant(q) ==
    /\ pc[q] = "Recv40"
    /\ \E r \in Procs :
        /\ pending[r] = pending[q]
        /\ tenantID[r] = tenantID[q]
        /\ pc[r] \in {"Connect59", "Lock61", "Publish62"}

\* C4: in the channel-based Server a getDB(B) call is never blocked by
\* activity for another tenant: a goroutine inside getDB either has an
\* enabled step, or waits for dbLock while it is held for a short bookkeeping
\* window, or waits on the pending channel of its own tenant.  In
\* particular nothing it waits for is a Connect of another tenant.
C4_NoCrossKeyBlocking ==
    \A q \in Procs :
        pc[q] \notin {"idle", "panic"} =>
            \/ ENABLED BestStep(q)
            \/ pc[q] \in {"RLock32", "RLock42", "Lock53", "Lock61"} /\ ShortWindow
            \/ WaitsForOwnTenant(q)

\* C4 witness: a goroutine is inside Connect(A), no Connect(A) has ever
\* finished, and a goroutine that installed its marker for B # A after A's
\* was installed has already created B and is returning it
C4_Witness ==
    \E p, q \in Procs :
        /\ pc[p] = "Connect59"
        /\ connects[tenantID[p]] = 0
        /\ pc[q] = "Return67"
        /\ tenantID[q] # tenantID[p]
        /\ pending[q] > pending[p]
        /\ db[q] # NilDB

\* C5: in the channel-based Server creations for distinct tenants are not
\* serialized by dbLock: while a goroutine is inside Connect(A), a goroutine
\* about to create B # A gets dbLock as soon as it is free of a short
\* bookkeeping window, and its Unlock at line 57 puts it inside Connect(B)
\* with Connect(A) still in progress.
C5_CreationsOverlap ==
    \A p, q \in Procs :
        (p # q /\ pc[p] = "Connect59" /\ tenantID[p] # tenantID[q]) =>
            /\ pc[q] = "Lock53" => (ENABLED Lock53(q)) \/ ShortWindow
            /\ pc[q] = "Install54" =>
                 ENABLED (Install54(q) /\ pc'[p] = "Connect59" /\ pc'[q] = "Connect59")

\* C5 witness: Connect(A) and Connect(B), A # B, in progress at the same time
C5_Witness ==
    \E p, q \in Procs :
        /\ pc[p] = "Connect59"
        /\ pc[q] = "Connect59"
        /\ tenantID[p] # tenantID[q]


\* C6: in the channel-based Server, under a fair scheduler and with every
\* Connect returning, every getDB call eventually returns; in particular
\* every goroutine blocked on a pending channel is released.
C6_EveryCallReturns ==
    \A p \in Procs : (pc[p] # "idle") ~> (pc[p] = "idle")

\* C6 witness: two goroutines blocked on the same pending channel at the
\* moment its creation has completed and the channel is closed
C6_Witness ==
    \E p, q \in Procs :
        /\ p # q
        /\ pc[p] = "Recv40"
        /\ pc[q] = "Recv40"
        /\ pending[p] = pending[q]
        /\ chans[pending[p]]


\* C8: for each Server variant, when the getDB calls never overlap (one
\* caller, strictly sequential), every call for a tenant returns the
\* instance the first call for that tenant created, whose get("mykey") is
\* "value_for_mykey", and between calls Count() is the number of distinct
\* tenants called for.
C8_SequentialCalls ==
    sequential =>
        /\ \A r \in returned :
            /\ r[2] = [ID |-> r[1], serial |-> 1]
            /\ get(r[2], "mykey") = "value_for_mykey"
        /\ Quiescent => Count = Cardinality(requested)

\* C8 witness: every request was made, one after the other, some tenant more
\* than once, against the naive Server, and each has returned
C8_Witness ==
    /\ sequential
    /\ Quiescent
    /\ variant = "naive"
    /\ calls = NbRequests
    /\ Cardinality(requested) < calls
    /\ Cardinality(returned) = Cardinality(requested)

\* C9: in the double-check Server, Connect(k) is invoked at most once for
\* every tenant k under every interleaving, no redundant connection is ever
\* counted, and at quiescence Count() is the number of distinct tenants
\* requested.
C9_DoubleCheckCreatesOnce ==
    /\ \A k \in Tenants : connects[k] <= 1
    /\ Count <= Cardinality(requested)
    /\ Quiescent => Count = Cardinality(requested)

\* C9 witness: a goroutine that saw its tenant absent under the read lock
\* holds the write lock and is about to find that another goroutine has
\* created it meanwhile
C9_Witness ==
    \E p \in Procs :
        /\ pc[p] = "dcRecheck31"
        /\ db[p] = NilDB
        /\ dbmap[tenantID[p]] # NilDB

\* C10: in the double-check Server at most one goroutine is inside Connect
\* in every reachable state, and it holds dbmapLock exclusively.
C10_ConnectsSerialized ==
    /\ Cardinality({p \in Procs : pc[p] = "dcConnect34"}) <= 1
    /\ \A p \in Procs : pc[p] = "dcConnect34" => dbLock = [w |-> p, r |-> {}]

\* C10 witness: a goroutine is inside Connect(A) while another one, which
\* needs to create B # A, waits for the write lock
C10_Witness ==
    \E p, q \in Procs :
        /\ pc[p] = "dcConnect34"
        /\ pc[q] = "dcLock30"
        /\ tenantID[p] # tenantID[q]


\* C11: in the naive Server getDB is not synchronized.  Nothing makes a
\* goroutine wait for another one's map access: while a goroutine is in the
\* middle of its store to dbmap, any goroutine about to look dbmap up can
\* start its lookup, and the two accesses then overlap (the "concurrent map
\* writes" race).  And nothing makes a goroutine see another one's creation:
\* a goroutine whose lookup of an absent tenant is in progress can go on to
\* Connect even though another goroutine is already creating that tenant, so
\* Count() is not bounded by the number of distinct tenants.
C11_NaiveUnsynchronized ==
    \A p, q \in Procs :
        /\ (p # q /\ pc[p] = "nvWriting84" /\ pc[q] = "nvRead80") =>
              ENABLED (NaiveRead80(q) /\ pc'[q] = "nvReading80" /\ pc'[p] = "nvWriting84")
        /\ (p # q /\ pc[p] \in {"nvConnect83", "nvStore84", "nvWriting84"}
                  /\ pc[q] = "nvReading80"
                  /\ tenantID[p] = tenantID[q]
                  /\ dbmap[tenantID[q]] = NilDB) =>
              ENABLED (NaiveLookup80(q) /\ pc'[q] = "nvConnect83" /\ count' = count + 1)

\* C11 witness: two goroutines are storing into dbmap at the same time, both
\* having connected to the same tenant, and Count() exceeds the number of
\* distinct tenants requested
C11_Witness ==
    /\ MapRace
    /\ \E p, q \in Procs :
        /\ p # q
        /\ pc[p] = "nvWriting84"
        /\ pc[q] = "nvWriting84"
        /\ tenantID[p] = tenantID[q]
    /\ Count > Cardinality(requested)


\* C12: in the channel-based Server dbmap[k] and dbPending[k] are never both
\* non-nil: a tenant is absent, pending or ready, and only one of them.
C12_AbsentPendingOrReady ==
    \A k \in Tenants : ~(dbmap[k] # NilDB /\ dbPending[k] # NilChan)

\* C13: in the channel-based Server a tenant only moves Absent -> Pending ->
\* Ready: once dbmap[k] is non-nil it is never given another instance, and
\* dbPending[k] never becomes non-nil after k has been ready.
C13_MonotonicPerTenant ==
    [][\A k \in Tenants :
          dbmap[k] # NilDB => (dbmap'[k] = dbmap[k] /\ dbPending'[k] = NilChan)]_vars


\* C14: in the channel-based Server no goroutine holds dbLock, shared or
\* exclusive, at a blocking point: not inside Connect, not while receiving
\* from a pending channel.  dbLock is held only around the map lookups
\* (shared) and the map updates (exclusive).
C14_NoLockWhileBlocking ==
    /\ \A p \in Procs :
        pc[p] \in {"Connect59", "Recv40"} => p \notin LockHolders
    /\ \A p \in dbLock.r : pc[p] \in {"Lookup33", "Reread43"}
    /\ dbLock.w # 0 => pc[dbLock.w] \in {"Install54", "Publish62"}

\* C14 witness: one goroutine is inside Connect, another is blocked on a
\* pending channel, and a third holds dbLock for a lookup
C14_Witness ==
    \E p, q, r \in Procs :
        /\ pc[p] = "Connect59"
        /\ pc[q] = "Recv40"
        /\ ~chans[pending[q]]
        /\ pc[r] = "Lookup33"
        /\ r \in dbLock.r

\* C15: in the channel-based Server a goroutine that has resumed from the
\* receive on its tenant's pending channel finds dbmap[k] non-nil when it
\* reads it again: the store to dbmap precedes the close of the channel,
\* and the panic("nil db :(") branch is never taken.
C15_WaiterSeesDB ==
    \A p \in Procs :
        /\ pc[p] # "panic"
        /\ (pc[p] = "Recv40" /\ chans[pending[p]]) => dbmap[tenantID[p]] # NilDB
        /\ pc[p] \in {"RLock42", "Reread43"} => dbmap[tenantID[p]] # NilDB

\* C15 witness: a goroutine that was blocked on a pending channel has
\* resumed and is about to read dbmap again
C15_Witness ==
    \E p \in Procs :
        /\ pc[p] = "Reread43"
        /\ pending[p] # NilChan
        /\ chans[pending[p]]
        /\ db[p] = NilDB


\* the pending markers installed so far: every make(chan bool) of line 54 is
\* installed at line 55
MarkersInstalled == Len(chans)

\* the Connect calls of the channel-based Server that have returned or are
\* in progress
RECURSIVE SumConnects(_)
SumConnects(S) ==
    IF S = {} THEN 0
    ELSE LET k == CHOOSE x \in S : TRUE
         IN connects[k] + SumConnects(S \ {k})

ConnectsStarted ==
    SumConnects(Tenants) + Cardinality({p \in Procs : pc[p] = "Connect59"})

\* C16: in the channel-based Server the counter goes up by exactly one in
\* the exclusive window that installs a pending marker, and nowhere else:
\* Count() never decreases; whenever dbLock is free it equals the number of
\* pending markers installed so far, which is the number of Connect calls
\* started or about to start; and it is always at least the number of
\* tenants with a non-nil dbmap entry.
C16_CountTracksMarkers ==
    /\ [](dbLock = Unlocked =>
            (Count = MarkersInstalled /\ Count = ConnectsStarted))
    /\ [](Count >= Cardinality({k \in Tenants : dbmap[k] # NilDB}))
    /\ [][\/ count' = count
          \/ /\ count' = count + 1
             /\ dbLock.w # 0
             /\ pc[dbLock.w] = "Install54"
             /\ dbPending'[tenantID[dbLock.w]] = MarkersInstalled + 1
             /\ dbPending[tenantID[dbLock.w]] # MarkersInstalled + 1]_vars

\* C16 witness: two markers have been installed and counted, one of the
\* creations is finished and in dbmap, and dbLock is free
C16_Witness ==
    /\ dbLock = Unlocked
    /\ Count = 2
    /\ Cardinality({k \in Tenants : dbmap[k] # NilDB}) = 1
    /\ \E p \in Procs : pc[p] = "Connect59"


\* a step of the double-check getDB by goroutine q
DCStep(q) ==
    \/ DCRLock25(q) \/ DCLookup26(q) \/ DCLock30(q) \/ DCRecheck31(q)
    \/ DCConnect34(q) \/ DCUnlock37(q) \/ DCReturn39(q)

\* C17: in the double-check Server, while a goroutine is inside Connect
\* (holding dbmapLock exclusively), a getDB call that starts cannot return,
\* not even for another tenant that is already in dbmap: it is blocked at
\* RLock, and every other call in progress is either blocked on the lock too
\* or had passed its last lookup before Connect began.
C17_AllWaitForConnect ==
    \A p, q \in Procs :
        (p # q /\ pc[p] = "dcConnect34") =>
            /\ pc[q] \in {"idle", "dcRLock25", "dcLock30", "dcReturn39"}
            /\ pc[q] \in {"dcRLock25", "dcLock30"} => ~ENABLED DCStep(q)
            /\ pc[q] = "idle" =>
                 \A k \in Tenants :
                    ~ENABLED (DCGetDB(q, k) /\ pc'[q] # "dcRLock25")

\* C17 witness: a goroutine is inside Connect(A) and a call for another
\* tenant B, which is already in dbmap, is blocked at RLock
C17_Witness ==
    \E p, q \in Procs :
        /\ pc[p] = "dcConnect34"
        /\ pc[q] = "dcRLock25"
        /\ tenantID[q] # tenantID[p]
        /\ dbmap[tenantID[q]] # NilDB


\* goroutine p takes a step
Steps(p) == pc'[p] # pc[p]

\* the tenant the getDB call of goroutine p is for, in a step of p
StepTenant(p) == IF pc[p] = "idle" THEN tenantID'[p] ELSE tenantID[p]

\* C18: in the channel-based Server getDB(k) has a bounded footprint.  Every
\* step of a getDB(k) call leaves dbmap[j] and dbPending[j] unchanged for
\* every other tenant j # k.  A call for a tenant that is ready (non-nil in
\* dbmap) when it looks it up goes straight to its return, and none of its
\* steps (the call, RLock, the lookup, the return) changes dbmap, dbPending
\* or count.
C18_BoundedFootprint ==
    [][\A p \in Procs :
          Steps(p) =>
            /\ \A j \in Tenants \ {StepTenant(p)} :
                  dbmap'[j] = dbmap[j] /\ dbPending'[j] = dbPending[j]
            /\ pc[p] \in {"idle", "RLock32", "Return67"} =>
                  UNCHANGED <<dbmap, dbPending, count>>
            /\ (pc[p] = "Lookup33" /\ dbmap[tenantID[p]] # NilDB) =>
                  /\ UNCHANGED <<dbmap, dbPending, count>>
                  /\ pc'[p] = "Return67"
                  /\ db'[p] = dbmap[tenantID[p]]]_vars

\* C18 witness: a call that found its tenant ready is returning it while
\* another tenant is pending
C18_Witness ==
    \E p \in Procs :
        /\ pc[p] = "Return67"
        /\ pending[p] = NilChan
        /\ db[p] # NilDB
        /\ \E j \in Tenants \ {tenantID[p]} : dbPending[j] # NilChan


\* the channels made so far
Chans == 1..Len(chans)

\* the goroutines that made channel c at line 54 and have not closed it yet
Closers(c) ==
    {p \in Procs : pending[p] = c /\ pc[p] \in {"Connect59", "Lock61", "Publish62"}}

\* C19: in the channel-based Server every pending channel is closed exactly
\* once, by the goroutine that made it, and only after that goroutine has
\* stored its DB into dbmap.  An open channel has exactly one goroutine that
\* is still to close it, a closed one has none, and a goroutine about to
\* close finds its channel open, so no close panics; a channel goes from
\* open to closed only in the step of lines 62-65 of its maker, which leaves
\* the maker's DB in dbmap, and never back; and once every call has returned
\* every channel made is closed.
C19_ClosedExactlyOnce ==
    /\ [](\A c \in Chans :
            Cardinality(Closers(c)) = (IF chans[c] THEN 0 ELSE 1))
    /\ [](\A p \in Procs : pc[p] # "panic")
    /\ [](Quiescent => \A c \in Chans : chans[c])
    /\ [][\A c \in Chans :
            /\ chans[c] => chans'[c]
            /\ (~chans[c] /\ chans'[c]) =>
                 \E p \in Closers(c) :
                    /\ pc[p] = "Publish62"
                    /\ dbLock.w = p
                    /\ db[p] # NilDB
                    /\ dbmap'[tenantID[p]] = db[p]]_vars

\* C19 witness: two goroutines made a channel each for the same tenant; one
\* has stored its DB and closed its channel, the other's is still open
C19_Witness ==
    \E p, q \in Procs :
        /\ p # q
        /\ tenantID[p] = tenantID[q]
        /\ pc[p] = "Return67"
        /\ pending[p] # NilChan
        /\ chans[pending[p]]
        /\ dbmap[tenantID[p]] = db[p]
        /\ q \in Closers(pending[q])
        /\ pending[q] # pending[p]

=============================================================================
